---------------------------- MODULE Spec2Model ----------------------------
(***************************************************************************)
(* The VM lifecycle of firecracker-orchestrator: the Manager of            *)
(* pkg/firecracker/manager.go, the HTTP handlers that call it and the      *)
(* vms table of internal/database/models.go, with the host resources they  *)
(* act on (TAP devices, files, hypervisor processes).                      *)
(*                                                                         *)
(* Every HTTP request is served by its own goroutine and the Manager       *)
(* holds no lock, so a handler is modelled as a sequence of steps, one per *)
(* access to shared state (a Manager field, the database, the host); a     *)
(* request occupies a slot of req from its Begin step to its Return step.  *)
(* With one slot the requests run one after the other.                     *)
(*                                                                         *)
(* Strings are modelled by the numbers they are formatted from:            *)
(*   TAP device  "fc-tap%d"          by the index                          *)
(*   IP address  "192.168.100.%d"    by the last octet (0 is the empty     *)
(*                                   string of a record with no address)   *)
(*   MAC address "02:00:00:00:00:%02x" by the last group (%02x pads, never *)
(*                                   truncates, so it is one-to-one)       *)
(*   VM id       uuid.New()          by the number of the create request   *)
(***************************************************************************)
EXTENDS Integers, FiniteSets, Sequences, TLC

VARIABLES
    db,         \* the vms table of the State Store: id -> [status, ip,
                \* cpus, memory]
    vms,        \* Manager.vms: id -> the FirecrackerVM [tap, mac, proc,
                \* socketPath]
    unlinked,   \* FirecrackerVM structs deleted from the map that a request
                \* being served still points to
    tapIndex,   \* Manager.tapIndex
    hostTaps,   \* TAP devices on the host: index -> is the link up
    files,      \* the configuration files: id -> [path, mac, tap,
                \* vcpu_count, mem_size_mib]
    socks,      \* ids whose control socket {socketDir}/{id}.sock exists
    procs,      \* live hypervisor processes: pid -> id it was started for
    req,        \* requests being served: slot -> request record
    nextID,     \* number of the next create request (its fresh uuid)
    faultsLeft, \* failures of external calls the environment may still inject
    pre,        \* the state when the request being served began (one slot only)
    env         \* the environment of the run, fixed by the initial state

vars == <<db, vms, unlinked, tapIndex, hostTaps, files, socks, procs, req, nextID,
          faultsLeft, pre, env>>

(***************************************************************************)
(* Bounds of the model.                                                    *)
(***************************************************************************)
MaxVMs == 2        \* create requests in a run of all four operations
AllocVMs == 3      \* create requests in a run of create and delete only
ConcVMs == 1       \* create requests in a concurrent run of all operations
MaxFaults == 1     \* failures the environment injects in a run
MaxInflight == 2   \* requests served at once in a concurrent run
MaxProcs == 2      \* hypervisor processes alive at once
ExtraCreates == 1  \* create requests beyond the address range in a pool run
MaxSize == 1       \* largest CPU count and memory size a request body carries
UpdateVMs == 1     \* create requests in a run with update requests
FaultVMs == 2      \* create requests in a run of create with several failures
CreateFaults == 2  \* failures the environment injects in such a run
WatchVMs == 1      \* create requests in a run where begun requests must end

(***************************************************************************)
(* Program constants.                                                      *)
(***************************************************************************)
IPBase == 10          \* "192.168.100.%d", 10+len(m.vms)
MACBase == 1          \* "02:00:00:00:00:%02x", len(m.vms)+1
LastHostOctet == 254  \* the last host address of the /24 bridge network
DefaultMemory == 512  \* req.Memory = 512 when the body has none
DefaultCPUs == 1      \* req.CPUs = 1 when the body has none

NoIP == 0
NoProc == 0         \* fcVM.Process == nil
Exited == 0 - 1     \* an os.Process whose process has exited: the program
                    \* reads no pid, so such handles are not told apart
NoTap == 0 - 1
None == "none"

(***************************************************************************)
(* Paths: filepath.Join(dir, name) of a name formatted from the VM id.     *)
(***************************************************************************)
SocketDir == "socketDir"
Join(dir, name) == <<dir, name>>
\* fmt.Sprintf("%s.sock", id) and fmt.Sprintf("%s-config.json", id)
SockName(id) == <<id, ".sock">>
ConfigName(id) == <<id, "-config.json">>
\* The paths CreateVM builds, and the configuration path StartVM builds.
CreateSocketPath(id) == Join(SocketDir, SockName(id))
CreateConfigPath(id) == Join(SocketDir, ConfigName(id))
\* A StartVM that formats the configuration path in another way than
\* CreateVM does.
StartConfigPathOther(id) == Join(SocketDir, <<id, ".json">>)
StartConfigPath(id) == Join(SocketDir, ConfigName(id))
NoArgs == <<>>

Put(f, k, v) == [x \in DOMAIN f \cup {k} |-> IF x = k THEN v ELSE f[x]]
Drop(f, k) == [x \in DOMAIN f \ {k} |-> f[x]]
Empty == [x \in {} |-> 0]

(***************************************************************************)
(* Requests.                                                               *)
(***************************************************************************)
Slots == 1 .. env.inflight
NoVM == [status |-> None, ip |-> NoIP, cpus |-> 0, memory |-> 0]
\* cpus and memory are the numbers of the request body as it was received.
Idle == [op |-> None, id |-> 0, pc |-> "idle", vm |-> NoVM, fcVM |-> FALSE,
         tapDevice |-> NoTap, tmp |-> 0, mac |-> 0, pid |-> NoProc,
         err |-> "nil", stopErr |-> "nil", cpus |-> 0, memory |-> 0,
         args |-> NoArgs, tapErr |-> "nil"]
Busy == {s \in Slots : req[s].pc # "idle"}
FreeSlot(s) == /\ s \in Slots
               /\ req[s].pc = "idle"
               /\ \A t \in Slots : t < s => req[t].pc # "idle"
Snapshot == [db |-> db, vms |-> vms, tapIndex |-> tapIndex,
             hostTaps |-> hostTaps, files |-> files, socks |-> socks,
             procs |-> procs, faultsLeft |-> faultsLeft]
NoSnapshot == [db |-> Empty, vms |-> Empty, tapIndex |-> 0,
               hostTaps |-> Empty, files |-> Empty, socks |-> {},
               procs |-> Empty, faultsLeft |-> 0]

\* An external call (the ip tool, the filesystem, the database, exec) may
\* fail while the environment has failures left to inject; a call that
\* cannot succeed (can is false) fails by itself.
Outcomes(can) == IF ~can THEN {FALSE}
                 ELSE IF faultsLeft > 0 THEN {TRUE, FALSE} ELSE {TRUE}
Spend(can, ok) == faultsLeft' = IF can /\ ~ok THEN faultsLeft - 1 ELSE faultsLeft

At(s, pc) == s \in Slots /\ req[s].pc = pc
Goto(s, pc) == [req EXCEPT ![s].pc = pc]

(***************************************************************************)
(* The State Store (internal/database/models.go).                          *)
(***************************************************************************)
\* INSERT INTO vms: the primary key rejects an id that is present.
dbCreateVM(id, vm) == Put(db, id, vm)
\* UPDATE vms SET ... WHERE id=?: no row matched is no error and no change.
dbUpdateVM(id, vm) == IF id \in DOMAIN db THEN Put(db, id, vm) ELSE db
\* DELETE FROM vms WHERE id=?
dbDeleteVM(id) == Drop(db, id)

(***************************************************************************)
(* Resource generation of the Manager.                                     *)
(***************************************************************************)
generateIPAddress == IPBase + Cardinality(DOMAIN vms)
generateMACAddress == Cardinality(DOMAIN vms) + MACBase

(***************************************************************************)
(* POST /api/v1/vms: handleCreateVM and Manager.CreateVM.                  *)
(***************************************************************************)
\* The body is bound (a number that is absent binds as 0), a 0 is replaced
\* by the default and any other number is taken as it is.
BeginCreate(s) ==
    /\ FreeSlot(s)
    /\ nextID <= env.creates
    /\ \E c \in env.sizes : \E m \in env.sizes :
        req' = [req EXCEPT ![s] = [Idle EXCEPT !.op = "create", !.id = nextID,
                  !.pc = "h_insert", !.cpus = c, !.memory = m,
                  !.vm = [status |-> "creating", ip |-> NoIP,
                          cpus |-> IF c = 0 THEN DefaultCPUs ELSE c,
                          memory |-> IF m = 0 THEN DefaultMemory ELSE m]]]
    /\ nextID' = nextID + 1
    /\ pre' = IF env.snap THEN Snapshot ELSE pre
    /\ UNCHANGED <<db, vms, unlinked, tapIndex, hostTaps, files, socks, procs,
                   faultsLeft, env>>

\* s.db.CreateVM(vm); on failure the handler answers 500 at once.
CreateInsert(s) ==
    /\ At(s, "h_insert")
    /\ \E ok \in Outcomes(req[s].id \notin DOMAIN db) :
        /\ Spend(req[s].id \notin DOMAIN db, ok)
        /\ IF ok
           THEN /\ db' = dbCreateVM(req[s].id, req[s].vm)
                /\ req' = Goto(s, "c_mkdir")
           ELSE /\ db' = db
                /\ req' = [req EXCEPT ![s].pc = "done", ![s].err = "insert"]
    /\ UNCHANGED <<vms, unlinked, tapIndex, hostTaps, files, socks, procs, nextID,
                   pre, env>>

\* os.MkdirAll(SocketDir), then tapDevice := TAPDeviceBase + m.tapIndex.
CreateTapName(s) ==
    /\ At(s, "c_mkdir")
    /\ \E ok \in Outcomes(TRUE) :
        /\ Spend(TRUE, ok)
        /\ req' = IF ok
                  THEN [req EXCEPT ![s].pc = "c_inc_load",
                                   ![s].tapDevice = tapIndex]
                  ELSE [req EXCEPT ![s].pc = "h_err", ![s].err = "mkdir"]
    /\ UNCHANGED <<db, vms, unlinked, tapIndex, hostTaps, files, socks, procs, nextID,
                   pre, env>>

\* m.tapIndex++ is a load and a store with no lock around them.
CreateIncLoad(s) ==
    /\ At(s, "c_inc_load")
    /\ req' = [req EXCEPT ![s].pc = "c_inc_store", ![s].tmp = tapIndex]
    /\ UNCHANGED <<db, vms, unlinked, tapIndex, hostTaps, files, socks, procs, nextID,
                   faultsLeft, pre, env>>

\* A CreateVM that leaves the TAP counter as it read it.
CreateIncStoreSame(s) ==
    /\ At(s, "c_inc_store")
    /\ tapIndex' = req[s].tmp
    /\ req' = Goto(s, "c_tapadd")
    /\ UNCHANGED <<db, vms, unlinked, hostTaps, files, socks, procs, nextID,
                   faultsLeft, pre, env>>

CreateIncStore(s) ==
    /\ At(s, "c_inc_store")
    /\ tapIndex' = req[s].tmp + 1
    /\ req' = Goto(s, "c_tapadd")
    /\ UNCHANGED <<db, vms, unlinked, hostTaps, files, socks, procs, nextID,
                   faultsLeft, pre, env>>

\* createTAPDevice, first call: ip tuntap add dev NAME mode tap. Adding a
\* device that exists attaches to it and leaves it as it is.
CreateTapAdd(s) ==
    /\ At(s, "c_tapadd")
    /\ \E ok \in Outcomes(TRUE) :
        /\ Spend(TRUE, ok)
        /\ IF ok
           THEN /\ hostTaps' = Put(hostTaps, req[s].tapDevice,
                        IF req[s].tapDevice \in DOMAIN hostTaps
                        THEN hostTaps[req[s].tapDevice] ELSE FALSE)
                /\ req' = Goto(s, "c_tapup")
           ELSE /\ hostTaps' = hostTaps
                /\ req' = [req EXCEPT ![s].pc = "h_err", ![s].err = "tap add"]
    /\ UNCHANGED <<db, vms, unlinked, tapIndex, files, socks, procs, nextID, pre, env>>

\* A createTAPDevice that goes on when ip link set up has failed.
CreateTapUpIgnored(s) ==
    /\ At(s, "c_tapup")
    /\ \E ok \in Outcomes(req[s].tapDevice \in DOMAIN hostTaps) :
        /\ Spend(req[s].tapDevice \in DOMAIN hostTaps, ok)
        /\ hostTaps' = IF ok THEN Put(hostTaps, req[s].tapDevice, TRUE)
                       ELSE hostTaps
    /\ req' = Goto(s, "c_ip")
    /\ UNCHANGED <<db, vms, unlinked, tapIndex, files, socks, procs, nextID, pre, env>>

\* createTAPDevice, second call: ip link set dev NAME up. It fails when the
\* device is gone; the device added by the first call is left as it is.
CreateTapUp(s) ==
    /\ At(s, "c_tapup")
    /\ \E ok \in Outcomes(req[s].tapDevice \in DOMAIN hostTaps) :
        /\ Spend(req[s].tapDevice \in DOMAIN hostTaps, ok)
        /\ IF ok
           THEN /\ hostTaps' = Put(hostTaps, req[s].tapDevice, TRUE)
                /\ req' = Goto(s, "c_ip")
           ELSE /\ hostTaps' = hostTaps
                /\ req' = [req EXCEPT ![s].pc = "h_err", ![s].err = "tap up"]
    /\ UNCHANGED <<db, vms, unlinked, tapIndex, files, socks, procs, nextID, pre, env>>

\* vm.IPAddress = m.generateIPAddress()
CreateAssignIP(s) ==
    /\ At(s, "c_ip")
    /\ req' = [req EXCEPT ![s].pc = "c_mac", ![s].vm.ip = generateIPAddress]
    /\ UNCHANGED <<db, vms, unlinked, tapIndex, hostTaps, files, socks, procs, nextID,
                   faultsLeft, pre, env>>

\* GuestMAC: m.generateMACAddress() while the configuration is built.
CreateAssignMAC(s) ==
    /\ At(s, "c_mac")
    /\ req' = [req EXCEPT ![s].pc = "c_write", ![s].mac = generateMACAddress]
    /\ UNCHANGED <<db, vms, unlinked, tapIndex, hostTaps, files, socks, procs, nextID,
                   faultsLeft, pre, env>>

\* os.WriteFile(configPath, configData, 0644)
CreateWriteConfig(s) ==
    /\ At(s, "c_write")
    /\ \E ok \in Outcomes(TRUE) :
        /\ Spend(TRUE, ok)
        /\ IF ok
           THEN /\ files' = Put(files, req[s].id,
                        [path |-> CreateConfigPath(req[s].id),
                         mac |-> req[s].mac, tap |-> req[s].tapDevice,
                         vcpu_count |-> req[s].vm.cpus,
                         mem_size_mib |-> req[s].vm.memory])
                /\ req' = Goto(s, "c_update")
           ELSE /\ files' = files
                /\ req' = [req EXCEPT ![s].pc = "h_err", ![s].err = "write"]
    /\ UNCHANGED <<db, vms, unlinked, tapIndex, hostTaps, socks, procs, nextID, pre, env>>

\* A CreateVM that goes on to insert the entry without the store update.
CreateUpdateSkipped(s) ==
    /\ At(s, "c_update")
    /\ req' = [req EXCEPT ![s].pc = "c_store", ![s].vm.status = "created"]
    /\ UNCHANGED <<db, vms, unlinked, tapIndex, hostTaps, files, socks, procs,
                   nextID, faultsLeft, pre, env>>

\* vm.Status = "created"; m.db.UpdateVM(vm)
CreateUpdate(s) ==
    /\ At(s, "c_update")
    /\ \E ok \in Outcomes(TRUE) :
        /\ Spend(TRUE, ok)
        /\ IF ok
           THEN /\ db' = dbUpdateVM(req[s].id,
                                   [req[s].vm EXCEPT !.status = "created"])
                /\ req' = [req EXCEPT ![s].pc = "c_store",
                                      ![s].vm.status = "created"]
           ELSE /\ db' = db
                /\ req' = [req EXCEPT ![s].pc = "h_err", ![s].err = "update",
                                      ![s].vm.status = "created"]
    /\ UNCHANGED <<vms, unlinked, tapIndex, hostTaps, files, socks, procs, nextID,
                   pre, env>>

\* m.vms[vm.ID] = fcVM; return nil
CreateStore(s) ==
    /\ At(s, "c_store")
    /\ vms' = Put(vms, req[s].id,
                  [tap |-> req[s].tapDevice, mac |-> req[s].mac,
                   proc |-> NoProc,
                   socketPath |-> CreateSocketPath(req[s].id)])
    /\ req' = Goto(s, "done")
    /\ UNCHANGED <<db, unlinked, tapIndex, hostTaps, files, socks, procs,
                   nextID, faultsLeft, pre, env>>

\* The handler after CreateVM returned an error: vm.Status = "error";
\* s.db.UpdateVM(vm), its own error dropped; then 500.
CreateError(s) ==
    /\ At(s, "h_err")
    /\ \E ok \in Outcomes(TRUE) :
        /\ Spend(TRUE, ok)
        /\ db' = IF ok
                 THEN dbUpdateVM(req[s].id, [req[s].vm EXCEPT !.status = "error"])
                 ELSE db
    /\ req' = [req EXCEPT ![s].pc = "done", ![s].vm.status = "error"]
    /\ UNCHANGED <<vms, unlinked, tapIndex, hostTaps, files, socks, procs, nextID,
                   pre, env>>

(***************************************************************************)
(* The FirecrackerVM a request holds a pointer to: the one in the map, or  *)
(* the one another request has deleted from the map meanwhile.             *)
(***************************************************************************)
FcVM(id) == IF id \in DOMAIN vms THEN vms[id] ELSE unlinked[id]
SetProcess(id, p) ==
    IF id \in DOMAIN vms
    THEN /\ vms' = [vms EXCEPT ![id].proc = p]
         /\ unlinked' = unlinked
    ELSE /\ unlinked' = [unlinked EXCEPT ![id].proc = p]
         /\ vms' = vms
\* The ids of the structs that requests other than s point to.
HeldBut(s) == {req[t].id : t \in {u \in Slots : u # s /\ req[u].fcVM}}

\* Ids a client can name: those handed out by earlier create requests.
KnownIDs == 1 .. (nextID - 1)
\* A pid that no live process has and no handle or request holds (a child
\* that exited is never waited for, so its pid is not reused while a handle
\* holds it).
FreshPid == CHOOSE p \in 1 .. (Cardinality(DOMAIN procs) + 1) :
                p \notin DOMAIN procs
\* Process p is gone: every handle to it is a handle to an exited process.
ExitedIn(f, p) == [i \in DOMAIN f |->
                     IF f[i].proc = p THEN [f[i] EXCEPT !.proc = Exited]
                     ELSE f[i]]
ExitedReq(r, p) == [t \in DOMAIN r |->
                      IF r[t].pid = p THEN [r[t] EXCEPT !.pid = Exited]
                      ELSE r[t]]
\* Start requests that have not reached cmd.Start() yet.
Spawning == {t \in Slots : req[t].pc \in {"s_get", "s_lookup", "s_spawn"}}

(***************************************************************************)
(* POST /api/v1/vms/:id/start: handleStartVM and Manager.StartVM.          *)
(***************************************************************************)
BeginStart(s, id) ==
    /\ FreeSlot(s)
    /\ id \in KnownIDs
    /\ Cardinality(DOMAIN procs) + Cardinality(Spawning) < MaxProcs
    /\ req' = [req EXCEPT ![s] = [Idle EXCEPT !.op = "start", !.id = id,
                                               !.pc = "s_get"]]
    /\ pre' = IF env.snap THEN Snapshot ELSE pre
    /\ UNCHANGED <<db, vms, unlinked, tapIndex, hostTaps, files, socks, procs,
                   nextID, faultsLeft, env>>

\* vm, err := m.db.GetVM(vmID)
StartGet(s) ==
    /\ At(s, "s_get")
    /\ \E ok \in Outcomes(req[s].id \in DOMAIN db) :
        /\ Spend(req[s].id \in DOMAIN db, ok)
        /\ req' = IF ok
                  THEN [req EXCEPT ![s].pc = "s_lookup", ![s].vm = db[req[s].id]]
                  ELSE [req EXCEPT ![s].pc = "done", ![s].err = "get"]
    /\ UNCHANGED <<db, vms, unlinked, tapIndex, hostTaps, files, socks, procs,
                   nextID, pre, env>>

\* fcVM, exists := m.vms[vmID]
StartLookup(s) ==
    /\ At(s, "s_lookup")
    /\ req' = IF req[s].id \in DOMAIN vms
              THEN [req EXCEPT ![s].pc = "s_spawn", ![s].fcVM = TRUE]
              ELSE [req EXCEPT ![s].pc = "done", ![s].err = "not found"]
    /\ UNCHANGED <<db, vms, unlinked, tapIndex, hostTaps, files, socks, procs,
                   nextID, faultsLeft, pre, env>>

\* cmd.Start() of firecracker --api-sock fcVM.SocketPath --config-file
\* {SocketDir}/{id}-config.json; the started hypervisor binds its control
\* socket.
StartSpawn(s) ==
    /\ At(s, "s_spawn")
    /\ \E ok \in Outcomes(TRUE) :
        /\ Spend(TRUE, ok)
        /\ IF ok
           THEN /\ procs' = Put(procs, FreshPid, req[s].id)
                /\ socks' = socks \cup {req[s].id}
                /\ req' = [req EXCEPT ![s].pc = "s_handle", ![s].pid = FreshPid,
                        ![s].args = <<"--api-sock", FcVM(req[s].id).socketPath,
                                      "--config-file",
                                      StartConfigPath(req[s].id)>>]
           ELSE /\ procs' = procs
                /\ socks' = socks
                /\ req' = [req EXCEPT ![s].pc = "done", ![s].err = "spawn"]
    /\ UNCHANGED <<db, vms, unlinked, tapIndex, hostTaps, files, nextID,
                   pre, env>>

\* fcVM.Process = cmd.Process
StartSetProcess(s) ==
    /\ At(s, "s_handle")
    /\ SetProcess(req[s].id, req[s].pid)
    /\ req' = Goto(s, "s_update")
    /\ UNCHANGED <<db, tapIndex, hostTaps, files, socks, procs, nextID,
                   faultsLeft, pre, env>>

\* vm.Status = "running"; m.db.UpdateVM(vm)
StartUpdate(s) ==
    /\ At(s, "s_update")
    /\ \E ok \in Outcomes(TRUE) :
        /\ Spend(TRUE, ok)
        /\ IF ok
           THEN /\ db' = dbUpdateVM(req[s].id,
                                   [req[s].vm EXCEPT !.status = "running"])
                /\ req' = [req EXCEPT ![s].pc = "done",
                                      ![s].vm.status = "running"]
           ELSE /\ db' = db
                /\ req' = [req EXCEPT ![s].pc = "done", ![s].err = "update",
                                      ![s].vm.status = "running"]
    /\ UNCHANGED <<vms, unlinked, tapIndex, hostTaps, files, socks, procs,
                   nextID, pre, env>>

(***************************************************************************)
(* POST /api/v1/vms/:id/stop: handleStopVM and Manager.StopVM. DeleteVM    *)
(* calls StopVM too and only logs its error.                               *)
(***************************************************************************)
BeginStop(s, id) ==
    /\ FreeSlot(s)
    /\ id \in KnownIDs
    /\ req' = [req EXCEPT ![s] = [Idle EXCEPT !.op = "stop", !.id = id,
                                               !.pc = "t_get"]]
    /\ pre' = IF env.snap THEN Snapshot ELSE pre
    /\ UNCHANGED <<db, vms, unlinked, tapIndex, hostTaps, files, socks, procs,
                   nextID, faultsLeft, env>>

\* StopVM returns e: to the stop handler, or into DeleteVM.
StopReturn(s, e, vm) ==
    IF req[s].op = "delete"
    THEN [req EXCEPT ![s].pc = "d_rmsock", ![s].stopErr = e, ![s].vm = vm]
    ELSE [req EXCEPT ![s].pc = "done", ![s].err = e, ![s].vm = vm]

\* vm, err := m.db.GetVM(vmID)
StopGet(s) ==
    /\ At(s, "t_get")
    /\ \E ok \in Outcomes(req[s].id \in DOMAIN db) :
        /\ Spend(req[s].id \in DOMAIN db, ok)
        /\ req' = IF ok
                  THEN [req EXCEPT ![s].pc = "t_lookup", ![s].vm = db[req[s].id]]
                  ELSE StopReturn(s, "get", req[s].vm)
    /\ UNCHANGED <<db, vms, unlinked, tapIndex, hostTaps, files, socks, procs,
                   nextID, pre, env>>

\* A StopVM that, finding no entry, goes on to the store update.
StopLookupLenient(s) ==
    /\ At(s, "t_lookup")
    /\ req' = IF req[s].id \in DOMAIN vms
              THEN [req EXCEPT ![s].pc = "t_kill", ![s].fcVM = TRUE]
              ELSE Goto(s, "t_update")
    /\ UNCHANGED <<db, vms, unlinked, tapIndex, hostTaps, files, socks, procs,
                   nextID, faultsLeft, pre, env>>

\* fcVM, exists := m.vms[vmID]
StopLookup(s) ==
    /\ At(s, "t_lookup")
    /\ req' = IF req[s].id \in DOMAIN vms
              THEN [req EXCEPT ![s].pc = "t_kill", ![s].fcVM = TRUE]
              ELSE StopReturn(s, "not found", req[s].vm)
    /\ UNCHANGED <<db, vms, unlinked, tapIndex, hostTaps, files, socks, procs,
                   nextID, faultsLeft, pre, env>>

\* A StopVM that returns the error of Kill instead of logging it.
StopKillFatal(s) ==
    /\ At(s, "t_kill")
    /\ IF FcVM(req[s].id).proc = Exited
       THEN /\ procs' = procs
            /\ vms' = vms
            /\ unlinked' = unlinked
            /\ req' = StopReturn(s, "kill", req[s].vm)
       ELSE IF FcVM(req[s].id).proc # NoProc
       THEN /\ procs' = Drop(procs, FcVM(req[s].id).proc)
            /\ vms' = ExitedIn(vms, FcVM(req[s].id).proc)
            /\ unlinked' = ExitedIn(unlinked, FcVM(req[s].id).proc)
            /\ req' = ExitedReq(Goto(s, "t_clear"), FcVM(req[s].id).proc)
       ELSE /\ procs' = procs
            /\ vms' = vms
            /\ unlinked' = unlinked
            /\ req' = Goto(s, "t_tap")
    /\ UNCHANGED <<db, tapIndex, hostTaps, files, socks, nextID, faultsLeft,
                   pre, env>>

\* if fcVM.Process != nil { fcVM.Process.Kill() ...: an error of Kill (the
\* process has exited) is logged.
StopKill(s) ==
    /\ At(s, "t_kill")
    /\ IF FcVM(req[s].id).proc # NoProc
       THEN /\ procs' = Drop(procs, FcVM(req[s].id).proc)
            /\ vms' = ExitedIn(vms, FcVM(req[s].id).proc)
            /\ unlinked' = ExitedIn(unlinked, FcVM(req[s].id).proc)
            /\ req' = ExitedReq(Goto(s, "t_clear"), FcVM(req[s].id).proc)
       ELSE /\ procs' = procs
            /\ vms' = vms
            /\ unlinked' = unlinked
            /\ req' = Goto(s, "t_tap")
    /\ UNCHANGED <<db, tapIndex, hostTaps, files, socks, nextID, faultsLeft,
                   pre, env>>

\* ... fcVM.Process = nil }
StopClearProcess(s) ==
    /\ At(s, "t_clear")
    /\ SetProcess(req[s].id, NoProc)
    /\ req' = Goto(s, "t_tap")
    /\ UNCHANGED <<db, tapIndex, hostTaps, files, socks, procs, nextID,
                   faultsLeft, pre, env>>

\* A StopVM that returns the error of deleteTAPDevice instead of logging it.
StopDeleteTapFatal(s) ==
    /\ At(s, "t_tap")
    /\ \E ok \in Outcomes(FcVM(req[s].id).tap \in DOMAIN hostTaps) :
        /\ Spend(FcVM(req[s].id).tap \in DOMAIN hostTaps, ok)
        /\ hostTaps' = IF ok THEN Drop(hostTaps, FcVM(req[s].id).tap)
                       ELSE hostTaps
        /\ req' = IF ok THEN Goto(s, "t_update")
                  ELSE [StopReturn(s, "tap delete", req[s].vm)
                            EXCEPT ![s].tapErr = "tap delete"]
    /\ UNCHANGED <<db, vms, unlinked, tapIndex, files, socks, procs, nextID,
                   pre, env>>

\* m.deleteTAPDevice(fcVM.TAPDevice): ip link delete NAME, its error logged.
StopDeleteTap(s) ==
    /\ At(s, "t_tap")
    /\ \E ok \in Outcomes(FcVM(req[s].id).tap \in DOMAIN hostTaps) :
        /\ Spend(FcVM(req[s].id).tap \in DOMAIN hostTaps, ok)
        /\ hostTaps' = IF ok THEN Drop(hostTaps, FcVM(req[s].id).tap)
                       ELSE hostTaps
        /\ req' = [req EXCEPT ![s].pc = "t_update",
                       ![s].tapErr = IF ok THEN "nil" ELSE "tap delete"]
    /\ UNCHANGED <<db, vms, unlinked, tapIndex, files, socks, procs, nextID,
                   pre, env>>

\* vm.Status = "stopped"; m.db.UpdateVM(vm)
StopUpdate(s) ==
    /\ At(s, "t_update")
    /\ \E ok \in Outcomes(TRUE) :
        /\ Spend(TRUE, ok)
        /\ IF ok
           THEN /\ db' = dbUpdateVM(req[s].id,
                                   [req[s].vm EXCEPT !.status = "stopped"])
                /\ req' = StopReturn(s, "nil",
                                     [req[s].vm EXCEPT !.status = "stopped"])
           ELSE /\ db' = db
                /\ req' = StopReturn(s, "update",
                                     [req[s].vm EXCEPT !.status = "stopped"])
    /\ UNCHANGED <<vms, unlinked, tapIndex, hostTaps, files, socks, procs,
                   nextID, pre, env>>

(***************************************************************************)
(* DELETE /api/v1/vms/:id: handleDeleteVM and Manager.DeleteVM.            *)
(***************************************************************************)
BeginDelete(s, id) ==
    /\ FreeSlot(s)
    /\ id \in KnownIDs
    /\ req' = [req EXCEPT ![s] = [Idle EXCEPT !.op = "delete", !.id = id,
                                               !.pc = "d_lookup"]]
    /\ pre' = IF env.snap THEN Snapshot ELSE pre
    /\ UNCHANGED <<db, vms, unlinked, tapIndex, hostTaps, files, socks, procs,
                   nextID, faultsLeft, env>>

\* if fcVM, exists := m.vms[vmID]; exists { if fcVM.Process != nil { StopVM
DeleteLookup(s) ==
    /\ At(s, "d_lookup")
    /\ req' = IF req[s].id \notin DOMAIN vms
              THEN Goto(s, "d_db")
              ELSE IF vms[req[s].id].proc # NoProc
              THEN [req EXCEPT ![s].pc = "t_get", ![s].fcVM = TRUE]
              ELSE [req EXCEPT ![s].pc = "d_rmsock", ![s].fcVM = TRUE]
    /\ UNCHANGED <<db, vms, unlinked, tapIndex, hostTaps, files, socks, procs,
                   nextID, faultsLeft, pre, env>>

\* os.Remove(socketPath), its error dropped.
DeleteRemoveSocket(s) ==
    /\ At(s, "d_rmsock")
    /\ \E ok \in Outcomes(req[s].id \in socks) :
        /\ Spend(req[s].id \in socks, ok)
        /\ socks' = IF ok THEN socks \ {req[s].id} ELSE socks
    /\ req' = Goto(s, "d_rmconfig")
    /\ UNCHANGED <<db, vms, unlinked, tapIndex, hostTaps, files, procs,
                   nextID, pre, env>>

\* os.Remove(configPath), its error dropped.
DeleteRemoveConfig(s) ==
    /\ At(s, "d_rmconfig")
    /\ \E ok \in Outcomes(req[s].id \in DOMAIN files) :
        /\ Spend(req[s].id \in DOMAIN files, ok)
        /\ files' = IF ok THEN Drop(files, req[s].id) ELSE files
    /\ req' = Goto(s, "d_unmap")
    /\ UNCHANGED <<db, vms, unlinked, tapIndex, hostTaps, socks, procs,
                   nextID, pre, env>>

\* delete(m.vms, vmID): the struct lives on while another request points to it.
DeleteUnmap(s) ==
    /\ At(s, "d_unmap")
    /\ vms' = Drop(vms, req[s].id)
    /\ unlinked' = IF req[s].id \in DOMAIN vms /\ req[s].id \in HeldBut(s)
                   THEN Put(unlinked, req[s].id, vms[req[s].id])
                   ELSE IF req[s].id \in HeldBut(s) THEN unlinked
                   ELSE Drop(unlinked, req[s].id)
    /\ req' = [req EXCEPT ![s].pc = "d_db", ![s].fcVM = FALSE]
    /\ UNCHANGED <<db, tapIndex, hostTaps, files, socks, procs, nextID,
                   faultsLeft, pre, env>>

\* A DeleteVM whose store deletion reports an error when no row matches.
DeleteRecordStrict(s) ==
    /\ At(s, "d_db")
    /\ \E ok \in Outcomes(req[s].id \in DOMAIN db) :
        /\ Spend(req[s].id \in DOMAIN db, ok)
        /\ IF ok
           THEN /\ db' = dbDeleteVM(req[s].id)
                /\ req' = Goto(s, "done")
           ELSE /\ db' = db
                /\ req' = [req EXCEPT ![s].pc = "done", ![s].err = "delete"]
    /\ UNCHANGED <<vms, unlinked, tapIndex, hostTaps, files, socks, procs,
                   nextID, pre, env>>

\* m.db.DeleteVM(vmID)
DeleteRecord(s) ==
    /\ At(s, "d_db")
    /\ \E ok \in Outcomes(TRUE) :
        /\ Spend(TRUE, ok)
        /\ IF ok
           THEN /\ db' = dbDeleteVM(req[s].id)
                /\ req' = Goto(s, "done")
           ELSE /\ db' = db
                /\ req' = [req EXCEPT ![s].pc = "done", ![s].err = "delete"]
    /\ UNCHANGED <<vms, unlinked, tapIndex, hostTaps, files, socks, procs,
                   nextID, pre, env>>

(***************************************************************************)
(* PUT /api/v1/vms/:id: handleUpdateVM. It does not call the Manager.      *)
(***************************************************************************)
BeginUpdate(s, id) ==
    /\ FreeSlot(s)
    /\ id \in KnownIDs
    /\ \E c \in env.sizes : \E m \in env.sizes :
        req' = [req EXCEPT ![s] = [Idle EXCEPT !.op = "update", !.id = id,
                                   !.pc = "u_get", !.cpus = c, !.memory = m]]
    /\ pre' = IF env.snap THEN Snapshot ELSE pre
    /\ UNCHANGED <<db, vms, unlinked, tapIndex, hostTaps, files, socks, procs,
                   nextID, faultsLeft, env>>

\* vm, err := s.db.GetVM(vmID), 404 on an error; then the body is bound and
\* its numbers that are > 0 replace those of vm.
UpdateGet(s) ==
    /\ At(s, "u_get")
    /\ \E ok \in Outcomes(req[s].id \in DOMAIN db) :
        /\ Spend(req[s].id \in DOMAIN db, ok)
        /\ req' = IF ok
                  THEN [req EXCEPT ![s].pc = "u_update",
                          ![s].vm = [db[req[s].id] EXCEPT
                              !.cpus = IF req[s].cpus > 0 THEN req[s].cpus
                                       ELSE @,
                              !.memory = IF req[s].memory > 0
                                         THEN req[s].memory ELSE @]]
                  ELSE [req EXCEPT ![s].pc = "done", ![s].err = "not found"]
    /\ UNCHANGED <<db, vms, unlinked, tapIndex, hostTaps, files, socks, procs,
                   nextID, pre, env>>

\* A handleUpdateVM that renders the configuration file again from the
\* updated record.
UpdateWriteRenders(s) ==
    /\ At(s, "u_update")
    /\ \E ok \in Outcomes(TRUE) :
        /\ Spend(TRUE, ok)
        /\ IF ok
           THEN /\ db' = dbUpdateVM(req[s].id, req[s].vm)
                /\ files' = IF req[s].id \in DOMAIN files
                            THEN [files EXCEPT
                                    ![req[s].id].vcpu_count = req[s].vm.cpus,
                                    ![req[s].id].mem_size_mib = req[s].vm.memory]
                            ELSE files
                /\ req' = Goto(s, "done")
           ELSE /\ db' = db
                /\ files' = files
                /\ req' = [req EXCEPT ![s].pc = "done", ![s].err = "update"]
    /\ UNCHANGED <<vms, unlinked, tapIndex, hostTaps, socks, procs,
                   nextID, pre, env>>

\* s.db.UpdateVM(vm), 500 on an error.
UpdateWrite(s) ==
    /\ At(s, "u_update")
    /\ \E ok \in Outcomes(TRUE) :
        /\ Spend(TRUE, ok)
        /\ IF ok
           THEN /\ db' = dbUpdateVM(req[s].id, req[s].vm)
                /\ req' = Goto(s, "done")
           ELSE /\ db' = db
                /\ req' = [req EXCEPT ![s].pc = "done", ![s].err = "update"]
    /\ UNCHANGED <<vms, unlinked, tapIndex, hostTaps, files, socks, procs,
                   nextID, pre, env>>

(***************************************************************************)
(* The environment: a hypervisor process exits by itself or is killed from *)
(* outside the orchestrator. Nothing in the Manager watches for it.        *)
(***************************************************************************)
ProcessExit(p) ==
    /\ p \in DOMAIN procs
    /\ procs' = Drop(procs, p)
    /\ vms' = ExitedIn(vms, p)
    /\ unlinked' = ExitedIn(unlinked, p)
    /\ req' = ExitedReq(req, p)
    /\ UNCHANGED <<db, tapIndex, hostTaps, files, socks, nextID, faultsLeft,
                   pre, env>>

\* The response is sent and the goroutine ends; a struct that only this
\* request pointed to is garbage.
Return(s) ==
    /\ At(s, "done")
    /\ req' = [req EXCEPT ![s] = Idle]
    /\ unlinked' = [i \in DOMAIN unlinked \cap HeldBut(s) |-> unlinked[i]]
    /\ pre' = IF env.snap THEN NoSnapshot ELSE pre
    /\ UNCHANGED <<db, vms, tapIndex, hostTaps, files, socks, procs, nextID,
                   faultsLeft, env>>

(***************************************************************************)
(* The orchestrator process ends between two requests (main returns on a   *)
(* signal with nothing stopped or cleaned up) and is started again:        *)
(* NewManager builds an empty table and a TAP counter of 0 and reads       *)
(* nothing from the database. The database, the TAP devices and the files  *)
(* stay, and so does every hypervisor process until it exits.              *)
(***************************************************************************)
Restart ==
    /\ Busy = {}
    /\ vms' = Empty
    /\ unlinked' = Empty
    /\ tapIndex' = 0
    /\ req' = [s \in Slots |-> Idle]
    /\ pre' = IF env.snap THEN NoSnapshot ELSE pre
    /\ UNCHANGED <<db, hostTaps, files, socks, procs, nextID, faultsLeft, env>>

(***************************************************************************)
(* Specifications.                                                         *)
(***************************************************************************)
\* firecracker.NewManager over an empty database on a clean host.
InitEnv(e) ==
    /\ env = e
    /\ db = Empty
    /\ vms = Empty
    /\ unlinked = Empty
    /\ tapIndex = 0
    /\ hostTaps = Empty
    /\ files = Empty
    /\ socks = {}
    /\ procs = Empty
    /\ req = [s \in 1 .. e.inflight |-> Idle]
    /\ nextID = 1
    /\ faultsLeft = e.faults
    /\ pre = NoSnapshot

CreateOK(s) ==
    \/ BeginCreate(s)
    \/ CreateInsert(s)
    \/ CreateTapName(s)
    \/ CreateIncLoad(s)
    \/ CreateIncStore(s)
    \/ CreateTapAdd(s)
    \/ CreateTapUp(s)
    \/ CreateAssignIP(s)
    \/ CreateAssignMAC(s)
    \/ CreateWriteConfig(s)
    \/ CreateUpdate(s)
    \/ CreateStore(s)

Create(s) == CreateOK(s) \/ CreateError(s)

\* The slots and pids of any run; a run uses Slots and DOMAIN procs of them.
AllSlots == 1 .. MaxInflight
AllPids == 1 .. MaxProcs

Start(s) ==
    \/ \E id \in KnownIDs : BeginStart(s, id)
    \/ StartGet(s)
    \/ StartLookup(s)
    \/ StartSpawn(s)
    \/ StartSetProcess(s)
    \/ StartUpdate(s)

Stop(s) ==
    \/ \E id \in KnownIDs : BeginStop(s, id)
    \/ StopGet(s)
    \/ StopLookup(s)
    \/ StopKill(s)
    \/ StopClearProcess(s)
    \/ StopDeleteTap(s)
    \/ StopUpdate(s)

Delete(s) ==
    \/ \E id \in KnownIDs : BeginDelete(s, id)
    \/ DeleteLookup(s)
    \/ DeleteRemoveSocket(s)
    \/ DeleteRemoveConfig(s)
    \/ DeleteUnmap(s)
    \/ DeleteRecord(s)

Update(s) ==
    \/ \E id \in KnownIDs : BeginUpdate(s, id)
    \/ UpdateGet(s)
    \/ UpdateWrite(s)

\* The requests are served one after the other.
EnvSeq == [inflight |-> 1, creates |-> MaxVMs, faults |-> MaxFaults,
           snap |-> TRUE,
           sizes |-> {0}]
Init == InitEnv(EnvSeq)
Next ==
    \/ \E s \in AllSlots : Create(s) \/ Start(s) \/ Stop(s) \/ Delete(s) \/ Return(s)
    \/ \E p \in AllPids : ProcessExit(p)
Spec == Init /\ [][Next]_vars

\* Create and delete requests only, one after the other, with no failure.
EnvAlloc == [inflight |-> 1, creates |-> AllocVMs, faults |-> 0,
             snap |-> TRUE,
           sizes |-> {0}]
InitAlloc == InitEnv(EnvAlloc)
NextAlloc == \E s \in AllSlots : CreateOK(s) \/ Delete(s) \/ Return(s)
SpecAlloc == InitAlloc /\ [][NextAlloc]_vars

\* Up to MaxInflight create requests are served at once, each in its
\* goroutine.
EnvCreates == [inflight |-> MaxInflight, creates |-> AllocVMs, faults |-> 0,
               snap |-> FALSE,
           sizes |-> {0}]
InitCreates == InitEnv(EnvCreates)
NextCreates == \E s \in AllSlots : CreateOK(s) \/ Return(s)
SpecCreates == InitCreates /\ [][NextCreates]_vars

\* Up to MaxInflight requests of any kind are served at once.
EnvConc == [inflight |-> MaxInflight, creates |-> ConcVMs, faults |-> 0,
            snap |-> FALSE,
           sizes |-> {0}]
InitConc == InitEnv(EnvConc)
NextConc ==
    \/ \E s \in AllSlots : CreateOK(s) \/ Start(s) \/ Stop(s) \/ Delete(s) \/ Return(s)
    \/ \E p \in AllPids : ProcessExit(p)
SpecConc == InitConc /\ [][NextConc]_vars

\* One create request after the other with no failure, until the host
\* addresses of the /24 network are used up and beyond.
PoolSize == LastHostOctet - IPBase + 1
EnvPool == [inflight |-> 1, creates |-> PoolSize + ExtraCreates, faults |-> 0,
            snap |-> TRUE,
           sizes |-> {0}]
InitPool == InitEnv(EnvPool)
NextPool == \E s \in AllSlots : CreateOK(s) \/ Return(s)
SpecPool == InitPool /\ [][NextPool]_vars

\* The requests are served one after the other with no failure, and the
\* orchestrator may be restarted at any time.
EnvRestart == [inflight |-> 1, creates |-> MaxVMs, faults |-> 0, snap |-> TRUE,
               sizes |-> {0}]
InitRestart == InitEnv(EnvRestart)
NextRestart ==
    \/ \E s \in AllSlots : CreateOK(s) \/ Start(s) \/ Stop(s) \/ Delete(s) \/ Return(s)
    \/ \E p \in AllPids : ProcessExit(p)
    \/ Restart
SpecRestart == InitRestart /\ [][NextRestart]_vars

\* A step of a request that has begun: its goroutine is scheduled until the
\* response is sent. No client has to send a request and no process has to
\* exit.
Serve(s) ==
    \/ CreateInsert(s) \/ CreateTapName(s) \/ CreateIncLoad(s)
    \/ CreateIncStore(s) \/ CreateTapAdd(s) \/ CreateTapUp(s)
    \/ CreateAssignIP(s) \/ CreateAssignMAC(s) \/ CreateWriteConfig(s)
    \/ CreateUpdate(s) \/ CreateStore(s) \/ CreateError(s)
    \/ StartGet(s) \/ StartLookup(s) \/ StartSpawn(s) \/ StartSetProcess(s)
    \/ StartUpdate(s)
    \/ StopGet(s) \/ StopLookup(s) \/ StopKill(s) \/ StopClearProcess(s)
    \/ StopDeleteTap(s) \/ StopUpdate(s)
    \/ DeleteLookup(s) \/ DeleteRemoveSocket(s) \/ DeleteRemoveConfig(s)
    \/ DeleteUnmap(s) \/ DeleteRecord(s)
    \/ UpdateGet(s) \/ UpdateWrite(s)
    \/ Return(s)

\* The requests are served one after the other with no failure, every
\* request that has begun is served to its end, and the program runs every
\* task it has.
EnvWatch == [inflight |-> 1, creates |-> WatchVMs, faults |-> 0, snap |-> FALSE,
             sizes |-> {0}]
InitWatch == InitEnv(EnvWatch)
NextWatch ==
    \/ \E s \in AllSlots : CreateOK(s) \/ Start(s) \/ Stop(s) \/ Delete(s) \/ Return(s)
    \/ \E p \in AllPids : ProcessExit(p)
SpecWatch == InitWatch /\ [][NextWatch]_vars
                       /\ WF_vars(\E s \in AllSlots : Serve(s))

\* Create requests with any CPU count and memory size of the bound, served
\* one after the other with no failure.
Sizes == (0 - MaxSize) .. MaxSize
EnvValidate == [inflight |-> 1, creates |-> MaxVMs, faults |-> 0,
                snap |-> TRUE, sizes |-> Sizes]
InitValidate == InitEnv(EnvValidate)
NextValidate == \E s \in AllSlots : CreateOK(s) \/ Return(s)
SpecValidate == InitValidate /\ [][NextValidate]_vars

\* Requests of all five kinds, with any numbers of the bound in the bodies,
\* served one after the other.
EnvUpdate == [inflight |-> 1, creates |-> UpdateVMs, faults |-> MaxFaults,
              snap |-> TRUE, sizes |-> Sizes]
InitUpdate == InitEnv(EnvUpdate)
NextUpdate ==
    \/ \E s \in AllSlots :
          Create(s) \/ Start(s) \/ Stop(s) \/ Delete(s) \/ Update(s) \/ Return(s)
    \/ \E p \in AllPids : ProcessExit(p)
SpecUpdate == InitUpdate /\ [][NextUpdate]_vars

\* Create requests served one after the other while several external calls
\* fail (a database that is down fails every call made to it).
EnvFaults == [inflight |-> 1, creates |-> FaultVMs, faults |-> CreateFaults,
              snap |-> TRUE, sizes |-> {0}]
InitFaults == InitEnv(EnvFaults)
NextFaults == \E s \in AllSlots : Create(s) \/ Return(s)
SpecFaults == InitFaults /\ [][NextFaults]_vars

\* Up to MaxInflight create, start, stop and update requests are served at
\* once with no failure.
EnvRace == [inflight |-> MaxInflight, creates |-> ConcVMs, faults |-> 0,
            snap |-> FALSE, sizes |-> {0}]
InitRace == InitEnv(EnvRace)
NextRace ==
    \/ \E s \in AllSlots :
          CreateOK(s) \/ Start(s) \/ Stop(s) \/ Update(s) \/ Return(s)
    \/ \E p \in AllPids : ProcessExit(p)
SpecRace == InitRace /\ [][NextRace]_vars

(***************************************************************************)
(* The claims.                                                             *)
(***************************************************************************)
\* Request s has run handler op to its end and its response is due.
Done(s, op) == req[s].pc = "done" /\ req[s].op = op
\* No external call has failed since the request being served began.
NoFailureInCall == faultsLeft = pre.faultsLeft
\* The VMs that exist: created and not deleted.
Existing == DOMAIN vms \cap DOMAIN db

\* C1: after any sequence of create and delete operations, no two VMs that
\* exist have the same IP address.
C1_ExistingIPsDistinct ==
    \A a \in Existing : \A b \in Existing :
        a # b => db[a].ip # db[b].ip

\* C2: the guest MAC addresses of the Runtime Entries in the manager's
\* table are pairwise distinct in every reachable state.
C2_EntryMACsDistinct ==
    \A a \in DOMAIN vms : \A b \in DOMAIN vms :
        a # b => vms[a].mac # vms[b].mac

\* C3: no two create calls that run concurrently are given the same TAP
\* device name.
C3_ConcurrentTapNamesDistinct ==
    \A s \in Slots : \A u \in Slots :
        (/\ s # u
         /\ req[s].op = "create" /\ req[s].tapDevice # NoTap
         /\ req[u].op = "create" /\ req[u].tapDevice # NoTap)
        => req[s].tapDevice # req[u].tapDevice

\* C4: with the pool of PoolSize host addresses, at most PoolSize VMs hold a
\* network resource at once, and a create issued while PoolSize VMs hold
\* resources fails with ResourceExhausted and leaves the TAP counter, the
\* assigned addresses and the runtime table unchanged.
C4_PoolExhausted ==
    /\ Cardinality(DOMAIN vms) <= PoolSize
    /\ \A s \in Slots :
        (Done(s, "create") /\ Cardinality(DOMAIN pre.vms) >= PoolSize)
        => /\ req[s].err = "resource exhausted"
           /\ tapIndex = pre.tapIndex
           /\ vms = pre.vms
           /\ \A i \in DOMAIN db : db[i].ip # NoIP => i \in DOMAIN pre.db

\* The VM of request s was running when the request began: its record said
\* running and its handle was that of a live process.
WasRunning(s) ==
    /\ req[s].id \in DOMAIN pre.db /\ pre.db[req[s].id].status = "running"
    /\ req[s].id \in DOMAIN pre.vms
    /\ pre.vms[req[s].id].proc \in DOMAIN pre.procs

\* C5: start on a VM that is already running returns success (no external
\* call failing during it) and spawns no second hypervisor process: the
\* handle is the one it was (or that process has exited by itself
\* meanwhile) and the status is still running.
C5_StartRunningSpawnsNothing ==
    \A s \in Slots :
        (Done(s, "start") /\ WasRunning(s) /\ NoFailureInCall)
        => /\ req[s].err = "nil"
           /\ req[s].pid = NoProc
           /\ req[s].id \in DOMAIN vms
           /\ vms[req[s].id].proc \in {pre.vms[req[s].id].proc, Exited}
           /\ db[req[s].id].status = "running"

\* C6: stop on a VM that is already stopped returns success (no external
\* call failing during it) and leaves the status stopped with no handle.
C6_StopStoppedSucceeds ==
    \A s \in Slots :
        (/\ Done(s, "stop")
         /\ req[s].id \in DOMAIN pre.db
         /\ pre.db[req[s].id].status = "stopped"
         /\ NoFailureInCall)
        => /\ req[s].err = "nil"
           /\ db[req[s].id].status = "stopped"
           /\ req[s].id \in DOMAIN vms => vms[req[s].id].proc = NoProc

\* C7: a create that fails at the write of the configuration file leaves
\* no network resource in use: its TAP device is gone from the host and no
\* IP address is recorded for the VM.
C7_WriteFailureReleasesAll ==
    \A s \in Slots :
        (Done(s, "create") /\ req[s].err = "write")
        => /\ req[s].tapDevice \notin DOMAIN hostTaps
           /\ req[s].id \in DOMAIN db => db[req[s].id].ip = NoIP

\* C8: when create returns the error of a network-device tool call (add, or
\* bring up), no TAP device created by that call remains on the host.
C8_TapFailureRemovesTap ==
    \A s \in Slots :
        (/\ Done(s, "create")
         /\ req[s].err \in {"tap add", "tap up"}
         /\ req[s].tapDevice \notin DOMAIN pre.hostTaps)
        => req[s].tapDevice \notin DOMAIN hostTaps

\* C9: when create returns the error of the State Store update to created,
\* the VM's configuration file and TAP device do not exist.
C9_UpdateFailureLeavesNoArtifact ==
    \A s \in Slots :
        (Done(s, "create") /\ req[s].err = "update")
        => /\ req[s].id \notin DOMAIN files
           /\ req[s].tapDevice \notin DOMAIN hostTaps

\* C10: between operations, a Runtime Entry holds a process handle if and
\* only if the VM's status in the State Store is running.
C10_HandleIffRunning ==
    Busy = {} =>
        \A i \in DOMAIN vms :
            vms[i].proc # NoProc <=> (i \in DOMAIN db /\ db[i].status = "running")

\* The statuses of a VM whose create has succeeded.
CreatedStatuses == {"created", "running", "stopped"}

\* C11: between operations, within one manager lifetime, a Runtime Entry
\* for an identifier is in the manager's table if and only if that VM has
\* been created successfully and its record is still in the State Store.
C11_EntryIffCreatedNotDeleted ==
    Busy = {} =>
        \A i \in KnownIDs :
            i \in DOMAIN vms
                <=> (i \in DOMAIN db /\ db[i].status \in CreatedStatuses)

\* C12: after a restart over the same State Store every record of a created
\* VM has a Runtime Entry between operations, and no start or stop of a VM
\* with such a record is answered with the entry not being found.
C12_RecordsRecovered ==
    /\ Busy = {} =>
          \A i \in DOMAIN db :
              db[i].status \in CreatedStatuses => i \in DOMAIN vms
    /\ \A s \in Slots :
          (/\ req[s].pc = "done" /\ req[s].op \in {"start", "stop"}
           /\ req[s].id \in DOMAIN pre.db
           /\ pre.db[req[s].id].status \in CreatedStatuses)
          => req[s].err # "not found"

\* C13: in every reachable state, under any interleaving of the requests,
\* each Runtime Entry in the manager's table has a VM record in the State
\* Store for the same identifier.
C13_EntriesHaveRecords == DOMAIN vms \subseteq DOMAIN db

\* C14: when start fails because the hypervisor process cannot be spawned,
\* the VM's status in the State Store is error, and its Runtime Entry, TAP
\* devices and IP address are as they were.
C14_SpawnFailureSetsError ==
    \A s \in Slots :
        (Done(s, "start") /\ req[s].err = "spawn")
        => /\ req[s].id \in DOMAIN db /\ db[req[s].id].status = "error"
           /\ db[req[s].id].ip = pre.db[req[s].id].ip
           /\ req[s].id \in DOMAIN vms /\ vms = pre.vms
           /\ hostTaps = pre.hostTaps

\* C15: the step that ends a start or a stop leaves the IP address of every
\* record as it was; and when it ends a stop that found the VM running and
\* returns success, the status is stopped, the entry has no process handle
\* and the entry's TAP device is gone from the host.
C15_StopEffectAndStableIP ==
    [][\A s \in Slots :
          (/\ req[s].op \in {"start", "stop"}
           /\ req[s].pc # "done" /\ req'[s].pc = "done")
          => /\ \A i \in DOMAIN db \cap DOMAIN db' : db'[i].ip = db[i].ip
             /\ (/\ req[s].op = "stop" /\ req'[s].err = "nil"
                 /\ req[s].vm.status = "running"
                 /\ req[s].id \in DOMAIN db' /\ req[s].id \in DOMAIN vms')
                => /\ db'[req[s].id].status = "stopped"
                   /\ vms'[req[s].id].proc = NoProc
                   /\ vms'[req[s].id].tap \notin DOMAIN hostTaps']_vars

\* The hypervisor process of running VM i has exited with no stop or delete
\* of i being served.
CrashedRunning(i) ==
    /\ i \in DOMAIN vms /\ vms[i].proc = Exited
    /\ i \in DOMAIN db /\ db[i].status = "running"
    /\ \A s \in Busy : req[s].id # i

\* C16: if the hypervisor process of a running VM exits without any stop
\* request, the VM's status in the State Store eventually becomes error
\* unless a further client request arrives first.
C16_CrashBecomesError ==
    \A i \in 1 .. WatchVMs :
        CrashedRunning(i)
            ~> ((i \in DOMAIN db /\ db[i].status = "error") \/ Busy # {})

\* C17: after delete of an existing VM returns success, the VM's record is
\* absent from the State Store, its Runtime Entry is absent from the table,
\* and neither its control socket nor its configuration file exists.
C17_DeleteRemovesAll ==
    \A s \in Slots :
        (/\ Done(s, "delete") /\ req[s].err = "nil"
         /\ req[s].id \in DOMAIN pre.db /\ req[s].id \in DOMAIN pre.vms)
        => /\ req[s].id \notin DOMAIN db
           /\ req[s].id \notin DOMAIN vms
           /\ req[s].id \notin socks
           /\ req[s].id \notin DOMAIN files

\* C18: after delete of a VM returns success (no external call failing
\* during it), the TAP device that was created for that VM is not on the
\* host, whatever the VM's status was.
C18_DeleteRemovesTap ==
    \A s \in Slots :
        (/\ Done(s, "delete") /\ req[s].err = "nil"
         /\ req[s].id \in DOMAIN pre.vms
         /\ NoFailureInCall)
        => pre.vms[req[s].id].tap \notin DOMAIN hostTaps

\* The processes of f that were spawned for VM i.
ProcsOf(f, i) == {p \in DOMAIN f : f[p] = i}

\* C19: after delete of a running VM (its handle being that of its one
\* live process) returns success, no hypervisor process spawned for that VM
\* is alive, also when the stop inside delete has reported a failure.
C19_DeleteKillsProcess ==
    \A s \in Slots :
        (/\ Done(s, "delete") /\ req[s].err = "nil"
         /\ req[s].id \in DOMAIN pre.vms
         /\ ProcsOf(pre.procs, req[s].id) = {pre.vms[req[s].id].proc})
        => ProcsOf(procs, req[s].id) = {}

\* C20: a create request whose CPU count or memory size is <= 0 is
\* rejected and has no side effect: the TAP devices, the configuration
\* files, the runtime table and the TAP counter are as they were.
C20_InvalidSpecRejected ==
    \A s \in Slots :
        (Done(s, "create") /\ (req[s].cpus <= 0 \/ req[s].memory <= 0))
        => /\ req[s].err = "invalid spec"
           /\ hostTaps = pre.hostTaps
           /\ files = pre.files
           /\ vms = pre.vms
           /\ tapIndex = pre.tapIndex

\* Request s is between its first and its last access to the runtime
\* table, the process handle or the store record of its VM.
InSection(s) ==
    \/ req[s].pc \in {"c_mkdir", "c_inc_load", "c_inc_store", "c_tapadd",
                      "c_tapup", "c_ip", "c_mac", "c_write", "c_update",
                      "c_store", "h_err"}
    \/ req[s].pc \in {"s_lookup", "s_spawn", "s_handle", "s_update"}
    \/ req[s].pc \in {"t_lookup", "t_kill", "t_clear", "t_tap", "t_update"}
    \/ req[s].op = "delete"
          /\ req[s].pc \in {"t_get", "d_rmsock", "d_rmconfig", "d_unmap", "d_db"}

\* C21: at no time are two mutating operations for the same VM identifier
\* both between their first and last access to the runtime table, the
\* process handle or the VM's store record.
C21_MutuallyExclusive ==
    \A s \in Slots : \A u \in Slots :
        (s # u /\ InSection(s) /\ InSection(u)) => req[s].id # req[u].id

\* Some request is taking the step at pc for VM i with operation op.
Stepping(op, pc, i) ==
    \E s \in Slots : /\ req[s].op = op /\ req[s].id = i
                     /\ req[s].pc = pc /\ req'[s].pc # pc

\* C22: every change of a stored status follows the lifecycle: created is
\* entered only from creating, running only by start from created or
\* stopped, stopped only by stop from running, and a record is removed only
\* by delete.
C22_LifecycleTransitions ==
    [][\A i \in DOMAIN db :
          /\ i \notin DOMAIN db' => Stepping("delete", "d_db", i)
          /\ (i \in DOMAIN db' /\ db'[i].status # db[i].status) =>
                /\ db'[i].status = "created" => db[i].status = "creating"
                /\ db'[i].status = "running" =>
                      /\ db[i].status \in {"created", "stopped"}
                      /\ Stepping("start", "s_update", i)
                /\ db'[i].status = "stopped" =>
                      /\ db[i].status = "running"
                      /\ \/ Stepping("stop", "t_update", i)
                         \/ Stepping("delete", "t_update", i)]_vars

ManagerCreateFailed(s) ==
    Done(s, "create") /\ req[s].err \in {"mkdir", "tap add", "tap up",
                                          "write", "update"}

\* C24: when the manager's create fails at any step, the VM's status in the
\* State Store is error once the request has completed: the record is not
\* left in creating or created.
C24_CreateFailureEndsError ==
    \A s \in Slots :
        ManagerCreateFailed(s)
        => (req[s].id \in DOMAIN db => db[req[s].id].status = "error")

\* C25: when the orchestrator process exits, no hypervisor process it
\* spawned is alive.
C25_ShutdownStopsAll == [][Restart => DOMAIN procs = {}]_vars

GatewayOctet == 1

\* C26: every IP address assigned by create is an allocatable host address
\* of the /24 range: its last octet is between 1 and LastHostOctet and is
\* not the gateway's.
C26_AssignedIPAllocatable ==
    \A i \in DOMAIN db :
        db[i].ip # NoIP
        => (db[i].ip \in 1 .. LastHostOctet /\ db[i].ip # GatewayOctet)

\* C27: start invokes the hypervisor with the control socket
\* {socketDir}/{vmID}.sock and the configuration file
\* {socketDir}/{vmID}-config.json, and that configuration path is the path
\* to which create wrote the configuration of the same VM.
C27_StartUsesCreatePaths ==
    \A s \in Slots :
        (req[s].op = "start" /\ req[s].args # NoArgs)
        => /\ req[s].args[1] = "--api-sock"
           /\ req[s].args[2] = <<SocketDir, <<req[s].id, ".sock">>>>
           /\ req[s].args[3] = "--config-file"
           /\ req[s].args[4] = <<SocketDir, <<req[s].id, "-config.json">>>>
           /\ req[s].id \in DOMAIN files
                => files[req[s].id].path = req[s].args[4]

C27_Witness ==
    \E s \in Slots :
        /\ Done(s, "start") /\ req[s].err = "nil"
        /\ req[s].args # NoArgs
        /\ req[s].id \in DOMAIN files

\* C28: the configuration file of a VM is written once at create time: no
\* step changes the content of a file that exists, and every step of a
\* start, stop or update request leaves all the files as they are.
C28_ConfigWrittenOnce ==
    [][/\ \A i \in DOMAIN files \cap DOMAIN files' : files'[i] = files[i]
       /\ \A s \in Slots :
             (req[s].op \in {"start", "stop", "update"}
                \/ req'[s].op \in {"start", "stop", "update"})
             => files' = files]_vars

\* An update has changed the memory size in the record of a VM whose
\* hypervisor process is running.
C28_Witness ==
    \E s \in Slots :
        /\ Done(s, "update") /\ req[s].err = "nil"
        /\ req[s].id \in DOMAIN vms
        /\ vms[req[s].id].proc \in DOMAIN procs
        /\ db[req[s].id].memory # pre.db[req[s].id].memory
        /\ req[s].id \in DOMAIN files
        /\ files[req[s].id] = pre.files[req[s].id]

\* C29: stop of a VM whose hypervisor process has already exited (no other
\* call failing) returns success, clears the process handle and sets the
\* status to stopped.
C29_StopExitedSucceeds ==
    \A s \in Slots :
        (/\ Done(s, "stop")
         /\ req[s].id \in DOMAIN pre.vms
         /\ pre.vms[req[s].id].proc = Exited
         /\ NoFailureInCall)
        => /\ req[s].err = "nil"
           /\ req[s].id \in DOMAIN vms /\ vms[req[s].id].proc = NoProc
           /\ req[s].id \in DOMAIN db /\ db[req[s].id].status = "stopped"

C29_Witness ==
    \E s \in Slots :
        /\ Done(s, "stop") /\ req[s].err = "nil"
        /\ req[s].id \in DOMAIN pre.vms
        /\ pre.vms[req[s].id].proc = Exited
        /\ NoFailureInCall

\* The deletion of the TAP device failed in the call of request s and no
\* other external call of it did.
OnlyTapDeleteFailed(s) ==
    /\ req[s].tapErr = "tap delete"
    /\ req[s].id \in DOMAIN pre.vms
    /\ faultsLeft = IF pre.vms[req[s].id].tap \in DOMAIN pre.hostTaps
                    THEN pre.faultsLeft - 1 ELSE pre.faultsLeft

\* C30: a failure of the deletion of the TAP device is not fatal: the
\* operation completes and returns success, stop has set the status to
\* stopped and delete has removed the record.
C30_TapDeleteFailureNonFatal ==
    \A s \in Slots :
        (req[s].pc = "done" /\ OnlyTapDeleteFailed(s))
        => /\ req[s].err = "nil"
           /\ req[s].op = "stop" =>
                (req[s].id \in DOMAIN db /\ db[req[s].id].status = "stopped")
           /\ req[s].op = "delete" => req[s].id \notin DOMAIN db

\* A stop has returned after ip link delete failed on a device that exists.
C30_Witness ==
    \E s \in Slots :
        /\ Done(s, "stop") /\ OnlyTapDeleteFailed(s)
        /\ vms[req[s].id].tap \in DOMAIN hostTaps

\* C31: within one manager lifetime and with the requests served one after
\* the other, the Runtime Entries name pairwise distinct TAP devices, and a
\* create is never given the TAP device name of another VM's entry.
C31_TapNamesNotReused ==
    /\ \A a \in DOMAIN vms : \A b \in DOMAIN vms :
          a # b => vms[a].tap # vms[b].tap
    /\ \A s \in Slots :
          (req[s].op = "create" /\ req[s].tapDevice # NoTap)
          => \A i \in DOMAIN vms \ {req[s].id} :
                 vms[i].tap # req[s].tapDevice

\* A create has succeeded while another VM had an entry.
C31_Witness ==
    \E s \in Slots :
        /\ Done(s, "create") /\ req[s].err = "nil"
        /\ DOMAIN pre.vms # {}

\* C32: create performs its steps in a fixed order and a failure prevents
\* all later steps: the configuration file exists only once the TAP device
\* is up, the status is created only once the file exists, the entry is
\* inserted only once the status is created, and a create that has failed
\* has written no file at or after the failed step, has not set the status
\* to created and has inserted no entry.
C32_CreateStepOrder ==
    \A s \in Slots :
        req[s].op = "create" =>
            /\ req[s].id \in DOMAIN files
                 => /\ req[s].tapDevice \in DOMAIN hostTaps
                    /\ hostTaps[req[s].tapDevice]
            /\ (req[s].id \in DOMAIN db /\ db[req[s].id].status = "created")
                 => req[s].id \in DOMAIN files
            /\ req[s].id \in DOMAIN vms
                 => (req[s].id \in DOMAIN db
                       /\ db[req[s].id].status = "created")
            /\ req[s].err # "nil"
                 => /\ req[s].id \notin DOMAIN vms
                    /\ req[s].id \in DOMAIN db
                         => db[req[s].id].status # "created"
            /\ req[s].err \in {"insert", "mkdir", "tap add", "tap up", "write"}
                 => req[s].id \notin DOMAIN files
            /\ req[s].err \in {"insert", "mkdir", "tap add"}
                 => (req[s].tapDevice = NoTap
                       \/ req[s].tapDevice \notin DOMAIN hostTaps)

\* A create has failed at the write of the file, after its TAP device was
\* brought up.
C32_Witness ==
    \E s \in Slots :
        /\ Done(s, "create") /\ req[s].err = "write"
        /\ req[s].tapDevice \in DOMAIN hostTaps

\* C33: whenever a VM's status is running, the TAP device named in its
\* configuration file exists on the host (in runs where no external call
\* has failed).
C33_RunningHasTap ==
    faultsLeft = env.faults =>
        \A i \in DOMAIN db \cap DOMAIN files :
            db[i].status = "running" => files[i].tap \in DOMAIN hostTaps

\* C34: the step in which an update request writes the record changes no
\* VM's status, also when a start or stop of the same VM has written the
\* status since the update read the record (the update having read the
\* record, and writing it, after the VM's create had set the status to
\* created).
C34_UpdateKeepsStatus ==
    [][\A s \in Slots :
          (/\ req[s].op = "update"
           /\ req[s].vm.status \in CreatedStatuses
           /\ req[s].pc = "u_update" /\ req'[s].pc = "done")
          => \A i \in DOMAIN db \cap DOMAIN db' :
                 db[i].status \in CreatedStatuses
                 => db'[i].status = db[i].status]_vars

\* C35: between operations, for every existing VM the vcpu_count and
\* mem_size_mib of its configuration file equal the CPU count and memory
\* size of its record (both written with positive values).
C35_ConfigMatchesRecord ==
    Busy = {} =>
        \A i \in Existing \cap DOMAIN files :
            (files[i].vcpu_count > 0 /\ files[i].mem_size_mib > 0)
            => /\ files[i].vcpu_count = db[i].cpus
               /\ files[i].mem_size_mib = db[i].memory

\* C36: if delete returns the error of the State Store deletion, the VM's
\* Runtime Entry, its socket and configuration files and its record are as
\* they were before the call.
C36_FailedDeleteChangesNothing ==
    \A s \in Slots :
        (Done(s, "delete") /\ req[s].err = "delete")
        => /\ req[s].id \in DOMAIN pre.vms => req[s].id \in DOMAIN vms
           /\ req[s].id \in DOMAIN pre.files => req[s].id \in DOMAIN files
           /\ req[s].id \in pre.socks => req[s].id \in socks
           /\ db = pre.db

\* Table f is table g but for the handles of processes that have exited by
\* themselves since.
SameButExited(f, g) ==
    /\ DOMAIN f = DOMAIN g
    /\ \A i \in DOMAIN f :
          f[i] = g[i] \/ f[i] = [g[i] EXCEPT !.proc = Exited]

\* C37: delete of an identifier that has neither a Runtime Entry nor a
\* record returns success (no external call failing) and changes nothing:
\* the runtime table, the TAP counter, the records, the files and the TAP
\* devices are as they were and no process has been started.
C37_DeleteUnknownChangesNothing ==
    \A s \in Slots :
        (/\ Done(s, "delete")
         /\ req[s].id \notin DOMAIN pre.vms
         /\ req[s].id \notin DOMAIN pre.db)
        => /\ NoFailureInCall => req[s].err = "nil"
           /\ SameButExited(vms, pre.vms)
           /\ tapIndex = pre.tapIndex
           /\ db = pre.db
           /\ files = pre.files
           /\ socks = pre.socks
           /\ hostTaps = pre.hostTaps
           /\ \A p \in DOMAIN procs :
                 p \in DOMAIN pre.procs /\ procs[p] = pre.procs[p]

\* A delete of an identifier with no entry and no record has returned
\* success while another VM existed.
C37_Witness ==
    \E s \in Slots :
        /\ Done(s, "delete") /\ req[s].err = "nil"
        /\ req[s].id \notin DOMAIN pre.vms
        /\ req[s].id \notin DOMAIN pre.db
        /\ DOMAIN pre.vms # {}

\* C38: start or stop for an identifier that has no record or no Runtime
\* Entry returns the error of the lookup that failed, before any process is
\* spawned or killed, deletes no TAP device and leaves the State Store
\* unchanged.
C38_StartStopUnknownRejected ==
    \A s \in Slots :
        (/\ req[s].pc = "done" /\ req[s].op \in {"start", "stop"}
         /\ (req[s].id \notin DOMAIN pre.db
                \/ req[s].id \notin DOMAIN pre.vms))
        => /\ req[s].err \in {"get", "not found"}
           /\ req[s].pid = NoProc
           /\ \A p \in DOMAIN procs : p \in DOMAIN pre.procs
           /\ hostTaps = pre.hostTaps
           /\ db = pre.db

\* A stop of a VM whose create failed (a record and no entry) has returned.
C38_Witness ==
    \E s \in Slots :
        /\ Done(s, "stop") /\ req[s].err = "not found"
        /\ req[s].id \in DOMAIN pre.db
        /\ req[s].id \notin DOMAIN pre.vms

\* Process p has been started by a start that has not stored the handle
\* yet.
HandedOver(p) == \E s \in Slots : req[s].pc = "s_handle" /\ req[s].pid = p

\* C39: in every reachable state each VM identifier has at most one live
\* hypervisor process, and every live process (once its start has stored
\* the handle) is the one the handle of that VM's Runtime Entry refers to.
C39_OneProcessPerVM ==
    \A i \in KnownIDs :
        /\ Cardinality(ProcsOf(procs, i)) <= 1
        /\ \A p \in ProcsOf(procs, i) :
              HandedOver(p) \/ (i \in DOMAIN vms /\ vms[i].proc = p)
=============================================================================
